---- MODULE Spec2Model ----
(***************************************************************************)
(* Model of the deployment rollover of aws-dagger-example                  *)
(* (.dagger/src/aws_dagger_example/main.py): AwsDaggerExample.push and     *)
(* AwsDaggerExample.deploy, together with the parts of the registry (ECR)  *)
(* and orchestration (ECS) control APIs that the two functions call.       *)
(*                                                                         *)
(* A task definition ARN is modelled as the pair <<family, revision>>.     *)
(* A Python dict is a function whose DOMAIN is the set of keys present, so *)
(* "'k' in d" is "k \in DOMAIN d" and d.get(k, v) is Get(d, k, v).         *)
(***************************************************************************)
EXTENDS Integers, Sequences, FiniteSets, TLC

VARIABLES
    taskDefs,   \* ECS: ARN -> [status, spec] of every stored revision
    services,   \* ECS: service name -> ARN its binding points at
    registry,   \* ECR: set of image references that have been published
    pc,         \* position of each deploy invocation
    local,      \* local variables of each deploy invocation
    outcome,    \* what the invocation handed to its caller, and what it printed
    calls,      \* client calls issued by the current invocation, in order
    atStart,    \* ECS/ECR state observed when the current invocation began
    runs,       \* number of invocations each caller has started
    http        \* demo service: the requests answered so far, with their answers

deployVars == <<taskDefs, services, registry, pc, local, outcome, calls, atStart, runs>>

vars == <<deployVars, http>>

---------------------------------------------------------------------------
\* Bounds of the model

MaxRuns == 2

MaxRequests == 3

---------------------------------------------------------------------------
\* Callers and inputs

AllProcs == {1, 2}
SeqProcs == {1}

Families == {"web", "api"}
Services == {"svc"}
Cluster  == "cluster"
Registry == "registry/app"

\* references publish() can return for the built image (registry + digest)
Images == {"registry/app:sha256-new", "registry/app:sha256-new2"}

None  == "None"
Unset == "unset"
NoArn == <<"", 0>>

EmptyDict == [k \in {} |-> ""]

---------------------------------------------------------------------------
\* Task definitions the account can hold before the first deploy

CtrsOne == << [name |-> "app", image |-> "old:1", essential |-> TRUE] >>

CtrsMany ==
    << [name |-> "app", image |-> "old:1", essential |-> TRUE],
       [name |-> "sidecar", essential |-> FALSE],
       [name |-> "proxy", image |-> "proxy:2", essential |-> FALSE] >>

OptScalars ==
    [taskRoleArn |-> "role/task", executionRoleArn |-> "role/exec",
     networkMode |-> "awsvpc", cpu |-> "256", memory |-> "512"]

OptFull ==
    OptScalars @@ [volumes |-> << [name |-> "data"] >>,
                   requiresCompatibilities |-> << "FARGATE" >>]

OptNoTaskRole == [k \in DOMAIN OptFull \ {"taskRoleArn"} |-> OptFull[k]]

OptExtra == OptFull @@ [placementConstraints |-> << [type |-> "memberOf"] >>]

InitSpecs ==
    { [containerDefinitions |-> CtrsOne]  @@ OptFull,
      [containerDefinitions |-> CtrsMany] @@ OptFull,
      [containerDefinitions |-> CtrsOne]  @@ OptScalars,
      [containerDefinitions |-> CtrsOne]  @@ OptNoTaskRole,
      [containerDefinitions |-> CtrsOne]  @@ OptExtra,
      [containerDefinitions |-> CtrsOne] }

\* revision -> status of a family, as left behind by earlier registrations
\* and deregistrations
InitHistories ==
    { EmptyDict,
      [r \in {3} |-> "ACTIVE"],
      [r \in {1, 2, 3, 5} |-> "ACTIVE"],
      [r \in {1, 2} |-> IF r = 1 THEN "ACTIVE" ELSE "INACTIVE"],
      [r \in {1} |-> "INACTIVE"] }

---------------------------------------------------------------------------
\* Python helpers

\* dict.get(k, default)
Get(d, k, default) == IF k \in DOMAIN d THEN d[k] ELSE default

MaxOf(S) == CHOOSE m \in S : \A x \in S : x <= m

MinOf(S) == CHOOSE m \in S : \A x \in S : m <= x

RECURSIVE SortDesc(_)
SortDesc(S) == IF S = {} THEN <<>> ELSE <<MaxOf(S)>> \o SortDesc(S \ {MaxOf(S)})

RECURSIVE SortAsc(_)
SortAsc(S) == IF S = {} THEN <<>> ELSE <<MinOf(S)>> \o SortAsc(S \ {MinOf(S)})

Take(s, n) == SubSeq(s, 1, IF Len(s) < n THEN Len(s) ELSE n)

---------------------------------------------------------------------------
\* The orchestration control API, as deploy calls it

RevisionsOf(tds, family) == {a[2] : a \in {b \in DOMAIN tds : b[1] = family}}

ActiveRevisionsOf(tds, family) ==
    {r \in RevisionsOf(tds, family) : tds[<<family, r>>].status = "ACTIVE"}

\* list_task_definitions(familyPrefix=..., sort='DESC', maxResults=1):
\* familyPrefix is the full family name, and with no status argument only
\* ACTIVE revisions are listed
EcsListTaskDefinitionsAsc(tds, familyPrefix) ==
    LET revs == SortAsc(ActiveRevisionsOf(tds, familyPrefix))
    IN  Take([i \in DOMAIN revs |-> <<familyPrefix, revs[i]>>], 1)

EcsListTaskDefinitionsAnyStatus(tds, familyPrefix) ==
    LET revs == SortDesc(RevisionsOf(tds, familyPrefix))
    IN  Take([i \in DOMAIN revs |-> <<familyPrefix, revs[i]>>], 1)

EcsListTaskDefinitionsNoPrefix(tds, familyPrefix) ==
    LET active == {a \in DOMAIN tds : tds[a].status = "ACTIVE"}
        latest == {a \in active : \A b \in active : b[2] <= a[2]}
    IN  IF active = {} THEN <<>> ELSE << CHOOSE a \in latest : TRUE >>

EcsListTaskDefinitions(tds, familyPrefix) ==
    LET revs == SortDesc(ActiveRevisionsOf(tds, familyPrefix))
    IN  Take([i \in DOMAIN revs |-> <<familyPrefix, revs[i]>>], 1)

\* describe_task_definition(taskDefinition=arn)['taskDefinition']
EcsDescribeTaskDefinition(tds, arn) ==
    [family |-> arn[1], taskDefinitionArn |-> arn, revision |-> arn[2],
     status |-> tds[arn].status] @@ tds[arn].spec

\* fields of a described task definition that the platform assigns
PlatformKeys == {"taskDefinitionArn", "revision", "status"}

NextArnReused(tds, family) ==
    <<family, IF RevisionsOf(tds, family) = {} THEN 1
              ELSE MaxOf(RevisionsOf(tds, family))>>

\* identifier the platform gives the next revision registered in a family
NextArn(tds, family) ==
    <<family, IF RevisionsOf(tds, family) = {} THEN 1
              ELSE MaxOf(RevisionsOf(tds, family)) + 1>>

\* register_task_definition(**kwargs): a new ACTIVE revision of
\* kwargs.family holding every other argument
EcsRegisterTaskDefinition(tds, kwargs) ==
    NextArn(tds, kwargs.family) :>
        [status |-> "ACTIVE",
         spec   |-> [k \in DOMAIN kwargs \ {"family"} |-> kwargs[k]]]
    @@ tds

\* deregister_task_definition(taskDefinition=arn)
EcsDeregisterTaskDefinition(tds, arn) == [tds EXCEPT ![arn].status = "INACTIVE"]

\* update_service(cluster, service, taskDefinition=arn); for some time after
\* a deregistration the platform still accepts the deregistered revision, so
\* the status of arn does not decide the outcome
EcsUpdateService(svcs, service, arn) == [svcs EXCEPT ![service] = arn]

---------------------------------------------------------------------------
\* deploy's own computations

\* for ctr in task_definition['containerDefinitions']:
\*     if 'image' in ctr: ctr['image'] = image
WithImageIfMissing(td, image) ==
    [td EXCEPT !.containerDefinitions =
        [i \in DOMAIN @ |->
            IF "image" \notin DOMAIN @[i]
            THEN @[i] @@ [image |-> image]
            ELSE @[i]]]

WithImageFirstOnly(td, image) ==
    [td EXCEPT !.containerDefinitions =
        [i \in DOMAIN @ |->
            IF "image" \in DOMAIN @[i] /\ i = 1
            THEN [@[i] EXCEPT !.image = image]
            ELSE @[i]]]

WithImage(td, image) ==
    [td EXCEPT !.containerDefinitions =
        [i \in DOMAIN @ |->
            IF "image" \in DOMAIN @[i]
            THEN [@[i] EXCEPT !.image = image]
            ELSE @[i]]]

\* keyword arguments whose type is a string: the client library validates
\* the arguments before sending and rejects None for them
ScalarKeys == {"taskRoleArn", "executionRoleArn", "networkMode", "cpu", "memory"}

\* the keyword arguments of register_task_definition
RegisterKwargs(td) ==
    [family                  |-> td.family,
     containerDefinitions    |-> td.containerDefinitions,
     volumes                 |-> Get(td, "volumes", <<>>),
     taskRoleArn             |-> Get(td, "taskRoleArn", None),
     executionRoleArn        |-> Get(td, "executionRoleArn", None),
     networkMode             |-> Get(td, "networkMode", None),
     requiresCompatibilities |-> Get(td, "requiresCompatibilities", <<>>),
     cpu                     |-> Get(td, "cpu", None),
     memory                  |-> Get(td, "memory", None)]

ParamsValid(kwargs) == \A k \in ScalarKeys : kwargs[k] # None

\* the keyword arguments of update_service
UpdateServiceKwargsOldArn(l) ==
    [cluster |-> l.cluster, service |-> l.service,
     taskDefinition |-> l.latest_task_definition_arn]

UpdateServiceKwargs(l) ==
    [cluster |-> l.cluster, service |-> l.service,
     taskDefinition |-> l.new_task_definition_arn]

ConfirmationOfOldRevision(service, arn) ==
    <<"Service", service, "updated to use task definition", <<arn[1], arn[2] - 1>>>>

\* f"Service {service} updated to use task definition {new_task_definition_arn}"
Confirmation(service, arn) ==
    <<"Service", service, "updated to use task definition", arn>>

---------------------------------------------------------------------------
\* Initial state

LegacyArn == <<"legacy", 1>>

\* the revisions of family "web" follow history h, family "api" holds one
\* active revision, and every revision was registered from spec s
InitTaskDefs(h, s) ==
    [a \in {<<"web", r>> : r \in DOMAIN h} \cup {<<"api", 1>>, LegacyArn} |->
        [status |-> IF a[1] = "web" THEN h[a[2]] ELSE "ACTIVE",
         spec   |-> s]]

NoLocals ==
    [cluster |-> Unset, service |-> Unset, task_definition_family |-> Unset,
     registry |-> Unset, registry_url |-> Unset, username |-> Unset,
     image |-> Unset, latest_task_definition_arn |-> NoArn,
     task_definition |-> EmptyDict, new_task_definition_arn |-> NoArn]

NoOutcome == [result |-> <<>>, error |-> <<>>, printed |-> <<>>]

\* what the caller's previous invocation returned to it, if it succeeded
NoPrevious ==
    [succeeded |-> FALSE, task_definition_family |-> Unset, service |-> Unset,
     new_task_definition_arn |-> NoArn]

Returned(p) ==
    IF pc[p] = "done"
    THEN [succeeded |-> TRUE,
          task_definition_family |-> local[p].task_definition_family,
          service |-> local[p].service,
          new_task_definition_arn |-> local[p].new_task_definition_arn]
    ELSE NoPrevious

Init ==
    /\ \E h \in InitHistories, s \in InitSpecs : taskDefs = InitTaskDefs(h, s)
    /\ \E a \in {b \in DOMAIN taskDefs : b[1] = "web"} \cup {LegacyArn} :
            services = [svc \in Services |-> a]
    /\ registry = {}
    /\ pc = [p \in AllProcs |-> "idle"]
    /\ local = [p \in AllProcs |-> NoLocals]
    /\ outcome = [p \in AllProcs |-> NoOutcome]
    /\ calls = [p \in AllProcs |-> <<>>]
    /\ atStart = [p \in AllProcs |->
                    [taskDefs |-> taskDefs, services |-> services,
                     registry |-> {}, previous |-> NoPrevious]]
    /\ runs = [p \in AllProcs |-> 0]
    /\ http = <<>>

---------------------------------------------------------------------------
\* Steps shared by the actions

Call(op, request, ok, response) ==
    [op |-> op, request |-> request, ok |-> ok, response |-> response]

ApiError(op) == <<"ClientError", op>>

\* an exception leaves push (or deploy before its try block): it reaches the
\* caller and nothing is printed
Raise(p, err) ==
    /\ pc' = [pc EXCEPT ![p] = "failed"]
    /\ outcome' = [outcome EXCEPT ![p].error = err]

RaiseInTrySwallowed(p, err) ==
    /\ pc' = [pc EXCEPT ![p] = "done"]
    /\ outcome' = [outcome EXCEPT
                     ![p].printed = Append(@, <<"Error updating ECS service", err>>)]

RaiseInTrySilent(p, err) ==
    /\ pc' = [pc EXCEPT ![p] = "failed"]
    /\ outcome' = [outcome EXCEPT ![p].error = err]

\* an exception inside deploy's try block: the handler prints it and
\* re-raises it
RaiseInTry(p, err) ==
    /\ pc' = [pc EXCEPT ![p] = "failed"]
    /\ outcome' = [outcome EXCEPT
                     ![p].error = err,
                     ![p].printed = Append(@, <<"Error updating ECS service", err>>)]

---------------------------------------------------------------------------
\* deploy(cluster, ..., service, task_definition_family, registry) is invoked

DeployStart(p) ==
    /\ pc[p] \in {"idle", "done", "failed"}
    /\ runs[p] < MaxRuns
    /\ \E family \in Families, service \in Services :
          local' = [local EXCEPT ![p] =
                      [NoLocals EXCEPT !.cluster = Cluster,
                                       !.service = service,
                                       !.task_definition_family = family,
                                       !.registry = Registry]]
    /\ pc' = [pc EXCEPT ![p] = "get_authorization_token"]
    /\ outcome' = [outcome EXCEPT ![p] = NoOutcome]
    /\ calls' = [calls EXCEPT ![p] = <<>>]
    /\ atStart' = [atStart EXCEPT ![p] =
                     [taskDefs |-> taskDefs, services |-> services,
                      registry |-> registry, previous |-> Returned(p)]]
    /\ runs' = [runs EXCEPT ![p] = @ + 1]
    /\ UNCHANGED <<taskDefs, services, registry, http>>

---------------------------------------------------------------------------
\* push: ecr_client.get_authorization_token() and the decoding of its answer

\* a decoded token is the list decoded_token.split(":") yields
AuthResponses ==
    { [authorizationData |-> <<>>],
      [authorizationData |->
          << [authorizationToken |-> <<"AWS", "password">>,
              proxyEndpoint |-> "https://ecr"] >>],
      [authorizationData |->
          << [authorizationToken |-> <<"AWS">>,
              proxyEndpoint |-> "https://ecr"] >>] }

PushGetAuthorizationTokenNoCheck(p) ==
    /\ pc[p] = "get_authorization_token"
    /\ \E response \in AuthResponses :
          /\ calls' = [calls EXCEPT ![p] =
                Append(@, Call("get_authorization_token", <<>>, TRUE, response))]
          /\ pc' = [pc EXCEPT ![p] = "publish"]
          /\ UNCHANGED <<local, outcome>>
    /\ UNCHANGED <<taskDefs, services, registry, atStart, runs, http>>

PushGetAuthorizationToken(p) ==
    /\ pc[p] = "get_authorization_token"
    /\ \/ /\ calls' = [calls EXCEPT ![p] =
                Append(@, Call("get_authorization_token", <<>>, FALSE, <<>>))]
          /\ Raise(p, ApiError("get_authorization_token"))
          /\ UNCHANGED local
       \/ \E response \in AuthResponses :
          /\ calls' = [calls EXCEPT ![p] =
                Append(@, Call("get_authorization_token", <<>>, TRUE, response))]
          /\ IF response.authorizationData = <<>>
             THEN /\ Raise(p, <<"ValueError", "No authorization data found">>)
                  /\ UNCHANGED local
             ELSE LET auth_data == response.authorizationData[1]
                      parts == auth_data.authorizationToken
                  IN  IF Len(parts) # 2
                      THEN /\ Raise(p, <<"ValueError", "unpack">>)
                           /\ UNCHANGED local
                      ELSE /\ local' = [local EXCEPT
                                 ![p].registry_url = auth_data.proxyEndpoint,
                                 ![p].username = parts[1]]
                           /\ pc' = [pc EXCEPT ![p] = "publish"]
                           /\ UNCHANGED outcome
    /\ UNCHANGED <<taskDefs, services, registry, atStart, runs, http>>

PushPublishNothingPushed(p) ==
    /\ pc[p] = "publish"
    /\ LET request == [registry_url |-> local[p].registry_url,
                       username |-> local[p].username,
                       address |-> local[p].registry]
       IN  \E ref \in Images :
              /\ calls' = [calls EXCEPT ![p] =
                    Append(@, Call("publish", request, TRUE, ref))]
              /\ local' = [local EXCEPT ![p].image = ref]
              /\ pc' = [pc EXCEPT ![p] = "list_task_definitions"]
              /\ UNCHANGED <<outcome, registry>>
    /\ UNCHANGED <<taskDefs, services, atStart, runs, http>>

\* push: self.build().with_registry_auth(...).publish(registry)
PushPublish(p) ==
    /\ pc[p] = "publish"
    /\ LET request == [registry_url |-> local[p].registry_url,
                       username |-> local[p].username,
                       address |-> local[p].registry]
       IN  \/ /\ calls' = [calls EXCEPT ![p] =
                    Append(@, Call("publish", request, FALSE, <<>>))]
              /\ Raise(p, ApiError("publish"))
              /\ UNCHANGED <<local, registry>>
           \/ \E ref \in Images :
              /\ calls' = [calls EXCEPT ![p] =
                    Append(@, Call("publish", request, TRUE, ref))]
              /\ registry' = registry \cup {ref}
              /\ local' = [local EXCEPT ![p].image = ref]
              /\ pc' = [pc EXCEPT ![p] = "list_task_definitions"]
              /\ UNCHANGED outcome
    /\ UNCHANGED <<taskDefs, services, atStart, runs, http>>

---------------------------------------------------------------------------
\* deploy: the calls inside the try block

DeployListTaskDefinitionsNoCheck(p) ==
    /\ pc[p] = "list_task_definitions"
    /\ LET family  == local[p].task_definition_family
           request == [familyPrefix |-> family, sort |-> "DESC", maxResults |-> 1]
           response ==
               [taskDefinitionArns |-> EcsListTaskDefinitions(taskDefs, family)]
       IN  /\ calls' = [calls EXCEPT ![p] =
                 Append(@, Call("list_task_definitions", request, TRUE, response))]
           /\ IF response.taskDefinitionArns = <<>>
              THEN /\ RaiseInTry(p, <<"IndexError", "list index out of range">>)
                   /\ UNCHANGED local
              ELSE /\ local' = [local EXCEPT ![p].latest_task_definition_arn =
                                   response.taskDefinitionArns[1]]
                   /\ outcome' = [outcome EXCEPT ![p].printed =
                         Append(@, <<"Latest task definition ARN",
                                     response.taskDefinitionArns[1]>>)]
                   /\ pc' = [pc EXCEPT ![p] = "describe_task_definition"]
    /\ UNCHANGED <<taskDefs, services, registry, atStart, runs, http>>

\* list_task_definitions, the emptiness check and the print of the ARN
DeployListTaskDefinitions(p) ==
    /\ pc[p] = "list_task_definitions"
    /\ LET family  == local[p].task_definition_family
           request == [familyPrefix |-> family, sort |-> "DESC", maxResults |-> 1]
       IN  \/ /\ calls' = [calls EXCEPT ![p] =
                    Append(@, Call("list_task_definitions", request, FALSE, <<>>))]
              /\ RaiseInTry(p, ApiError("list_task_definitions"))
              /\ UNCHANGED local
           \/ LET response ==
                      [taskDefinitionArns |-> EcsListTaskDefinitions(taskDefs, family)]
              IN  /\ calls' = [calls EXCEPT ![p] =
                        Append(@, Call("list_task_definitions", request, TRUE, response))]
                  /\ IF response.taskDefinitionArns = <<>>
                     THEN /\ RaiseInTry(p, <<"ValueError", "No task definitions found for family">>)
                          /\ UNCHANGED local
                     ELSE /\ local' = [local EXCEPT ![p].latest_task_definition_arn =
                                          response.taskDefinitionArns[1]]
                          /\ outcome' = [outcome EXCEPT ![p].printed =
                                Append(@, <<"Latest task definition ARN",
                                            response.taskDefinitionArns[1]>>)]
                          /\ pc' = [pc EXCEPT ![p] = "describe_task_definition"]
    /\ UNCHANGED <<taskDefs, services, registry, atStart, runs, http>>

\* describe_task_definition(taskDefinition=latest_task_definition_arn)
DeployDescribeTaskDefinition(p) ==
    /\ pc[p] = "describe_task_definition"
    /\ LET arn == local[p].latest_task_definition_arn
       IN  \/ /\ calls' = [calls EXCEPT ![p] =
                    Append(@, Call("describe_task_definition", arn, FALSE, <<>>))]
              /\ RaiseInTry(p, ApiError("describe_task_definition"))
              /\ UNCHANGED local
           \/ LET td == EcsDescribeTaskDefinition(taskDefs, arn)
              IN  /\ calls' = [calls EXCEPT ![p] =
                        Append(@, Call("describe_task_definition", arn, TRUE, td))]
                  /\ local' = [local EXCEPT ![p].task_definition = td]
                  /\ pc' = [pc EXCEPT ![p] = "register_task_definition"]
                  /\ UNCHANGED outcome
    /\ UNCHANGED <<taskDefs, services, registry, atStart, runs, http>>

DeployRegisterTaskDefinitionAfterDeregister(p) ==
    /\ pc[p] = "register_task_definition"
    /\ LET mutated == WithImage(local[p].task_definition, local[p].image)
           kwargs  == RegisterKwargs(mutated)
           retired == EcsDeregisterTaskDefinition(taskDefs,
                          local[p].latest_task_definition_arn)
       IN  \/ /\ calls' = [calls EXCEPT ![p] =
                    Append(@, Call("register_task_definition", kwargs, FALSE, NoArn))]
              /\ RaiseInTry(p, ApiError("register_task_definition"))
              /\ local' = [local EXCEPT ![p].task_definition = mutated]
              /\ taskDefs' = retired
           \/ /\ ParamsValid(kwargs)
              /\ calls' = [calls EXCEPT ![p] =
                    Append(@, Call("register_task_definition", kwargs, TRUE,
                                   NextArn(taskDefs, kwargs.family)))]
              /\ taskDefs' = EcsRegisterTaskDefinition(retired, kwargs)
              /\ local' = [local EXCEPT
                             ![p].task_definition = mutated,
                             ![p].new_task_definition_arn =
                                 NextArn(taskDefs, kwargs.family)]
              /\ pc' = [pc EXCEPT ![p] = "deregister_task_definition"]
              /\ UNCHANGED outcome
    /\ UNCHANGED <<services, registry, atStart, runs, http>>

\* the image loop, then register_task_definition(...)
DeployRegisterTaskDefinition(p) ==
    /\ pc[p] = "register_task_definition"
    /\ LET mutated == WithImage(local[p].task_definition, local[p].image)
           kwargs  == RegisterKwargs(mutated)
       IN  \/ /\ calls' = [calls EXCEPT ![p] =
                    Append(@, Call("register_task_definition", kwargs, FALSE, NoArn))]
              /\ RaiseInTry(p, IF ParamsValid(kwargs)
                               THEN ApiError("register_task_definition")
                               ELSE <<"ParamValidationError", "register_task_definition">>)
              /\ local' = [local EXCEPT ![p].task_definition = mutated]
              /\ UNCHANGED taskDefs
           \/ /\ ParamsValid(kwargs)
              /\ calls' = [calls EXCEPT ![p] =
                    Append(@, Call("register_task_definition", kwargs, TRUE,
                                   NextArn(taskDefs, kwargs.family)))]
              /\ taskDefs' = EcsRegisterTaskDefinition(taskDefs, kwargs)
              /\ local' = [local EXCEPT
                             ![p].task_definition = mutated,
                             ![p].new_task_definition_arn =
                                 NextArn(taskDefs, kwargs.family)]
              /\ pc' = [pc EXCEPT ![p] = "deregister_task_definition"]
              /\ UNCHANGED outcome
    /\ UNCHANGED <<services, registry, atStart, runs, http>>

DeployDeregisterTaskDefinitionSkipped(p) ==
    /\ pc[p] = "deregister_task_definition"
    /\ calls' = [calls EXCEPT ![p] =
          Append(@, Call("deregister_task_definition",
                         local[p].latest_task_definition_arn, TRUE, <<>>))]
    /\ pc' = [pc EXCEPT ![p] = "update_service"]
    /\ UNCHANGED <<taskDefs, services, registry, local, outcome, atStart, runs, http>>

DeployDeregisterTaskDefinitionOfNew(p) ==
    /\ pc[p] = "deregister_task_definition"
    /\ LET arn == local[p].new_task_definition_arn
       IN  \/ /\ calls' = [calls EXCEPT ![p] =
                    Append(@, Call("deregister_task_definition", arn, FALSE, <<>>))]
              /\ RaiseInTry(p, ApiError("deregister_task_definition"))
              /\ UNCHANGED taskDefs
           \/ /\ calls' = [calls EXCEPT ![p] =
                    Append(@, Call("deregister_task_definition", arn, TRUE, <<>>))]
              /\ taskDefs' = EcsDeregisterTaskDefinition(taskDefs, arn)
              /\ pc' = [pc EXCEPT ![p] = "update_service"]
              /\ UNCHANGED outcome
    /\ UNCHANGED <<services, registry, local, atStart, runs, http>>

\* deregister_task_definition(taskDefinition=latest_task_definition_arn)
DeployDeregisterTaskDefinition(p) ==
    /\ pc[p] = "deregister_task_definition"
    /\ LET arn == local[p].latest_task_definition_arn
       IN  \/ /\ calls' = [calls EXCEPT ![p] =
                    Append(@, Call("deregister_task_definition", arn, FALSE, <<>>))]
              /\ RaiseInTry(p, ApiError("deregister_task_definition"))
              /\ UNCHANGED taskDefs
           \/ /\ calls' = [calls EXCEPT ![p] =
                    Append(@, Call("deregister_task_definition", arn, TRUE, <<>>))]
              /\ taskDefs' = EcsDeregisterTaskDefinition(taskDefs, arn)
              /\ pc' = [pc EXCEPT ![p] = "update_service"]
              /\ UNCHANGED outcome
    /\ UNCHANGED <<services, registry, local, atStart, runs, http>>

\* update_service(cluster, service, taskDefinition=new_task_definition_arn)
\* and the return of the confirmation
DeployUpdateService(p) ==
    /\ pc[p] = "update_service"
    /\ LET request == UpdateServiceKwargs(local[p])
       IN  \/ /\ calls' = [calls EXCEPT ![p] =
                    Append(@, Call("update_service", request, FALSE, <<>>))]
              /\ RaiseInTry(p, ApiError("update_service"))
              /\ UNCHANGED services
           \/ /\ calls' = [calls EXCEPT ![p] =
                    Append(@, Call("update_service", request, TRUE, <<>>))]
              /\ services' = EcsUpdateService(services, request.service,
                                              request.taskDefinition)
              /\ outcome' = [outcome EXCEPT ![p].result =
                    Confirmation(local[p].service, local[p].new_task_definition_arn)]
              /\ pc' = [pc EXCEPT ![p] = "done"]
    /\ UNCHANGED <<taskDefs, registry, local, atStart, runs, http>>

---------------------------------------------------------------------------
\* Specification: deploy invocations made one after another by one caller

Step(p) ==
    \/ DeployStart(p)
    \/ PushGetAuthorizationToken(p)
    \/ PushPublish(p)
    \/ DeployListTaskDefinitions(p)
    \/ DeployDescribeTaskDefinition(p)
    \/ DeployRegisterTaskDefinition(p)
    \/ DeployDeregisterTaskDefinition(p)
    \/ DeployUpdateService(p)

Next == \E p \in SeqProcs : Step(p)

Spec == Init /\ [][Next]_vars

---------------------------------------------------------------------------
\* Reading the record of an invocation

Pipeline ==
    << "get_authorization_token", "publish", "list_task_definitions",
       "describe_task_definition", "register_task_definition",
       "deregister_task_definition", "update_service" >>

HasCall(p, op) == \E i \in DOMAIN calls[p] : calls[p][i].op = op

CallOf(p, op) == calls[p][CHOOSE i \in DOMAIN calls[p] : calls[p][i].op = op]

Succeeded(p, op) == HasCall(p, op) /\ CallOf(p, op).ok

Rejected(p, op) == HasCall(p, op) /\ ~CallOf(p, op).ok

FamilyOf(p) == local[p].task_definition_family

ContainersOf(tds, arn) == tds[arn].spec.containerDefinitions

\* the ECS state is what it was when the invocation began
EcsAsAtStart(p) ==
    /\ taskDefs = atStart[p].taskDefs
    /\ services = atStart[p].services

---------------------------------------------------------------------------
\* C1: a deploy in which every step succeeded, started on a family whose
\* highest revision is n, has added exactly one revision, n+1, to the store;
\* every container of the new revision that has an image field carries the
\* reference publish returned; revision n and the revision that was resolved
\* are INACTIVE and still stored with their specification; and the service
\* is bound to the new revision.
C1_SuccessfulRollover ==
    \A p \in SeqProcs :
        pc[p] = "done" =>
            LET before == atStart[p].taskDefs
                n      == MaxOf(RevisionsOf(before, FamilyOf(p)))
                new    == <<FamilyOf(p), n + 1>>
                old    == local[p].latest_task_definition_arn
                pushed == CallOf(p, "publish").response
            IN  /\ RevisionsOf(before, FamilyOf(p)) # {}
                /\ new \notin DOMAIN before
                /\ DOMAIN taskDefs = DOMAIN before \cup {new}
                /\ taskDefs[new].status = "ACTIVE"
                /\ pushed \in registry
                /\ \A i \in DOMAIN ContainersOf(taskDefs, new) :
                      "image" \in DOMAIN ContainersOf(taskDefs, new)[i] =>
                          ContainersOf(taskDefs, new)[i].image = pushed
                /\ \A a \in {<<FamilyOf(p), n>>, old} :
                      /\ a \in DOMAIN before
                      /\ taskDefs[a].status = "INACTIVE"
                      /\ taskDefs[a].spec = before[a].spec
                /\ \A a \in DOMAIN before \ {old} : taskDefs[a] = before[a]
                /\ services[local[p].service] = new

\* scenario A: revision 3 of "web" was the latest, revision 4 now serves
C1_Witness ==
    /\ pc[1] = "done"
    /\ <<"web", 3>> \in DOMAIN atStart[1].taskDefs
    /\ atStart[1].taskDefs[<<"web", 3>>].status = "ACTIVE"
    /\ <<"web", 4>> \notin DOMAIN atStart[1].taskDefs
    /\ taskDefs[<<"web", 3>>].status = "INACTIVE"
    /\ Len(ContainersOf(taskDefs, <<"web", 4>>)) = 3
    /\ ContainersOf(taskDefs, <<"web", 4>>)[3].image = "registry/app:sha256-new"
    /\ services["svc"] = <<"web", 4>>

\* C2: the client calls of an invocation are a prefix of the pipeline
\* get_authorization_token, publish, list, describe, register, deregister,
\* update_service (so each is issued at most once and in that order), every
\* call but the last has returned successfully, and update_service carries
\* the identifier that register_task_definition returned.
C2_CallOrder ==
    \A p \in SeqProcs :
        /\ Len(calls[p]) <= Len(Pipeline)
        /\ \A i \in DOMAIN calls[p] :
              /\ calls[p][i].op = Pipeline[i]
              /\ i < Len(calls[p]) => calls[p][i].ok
        /\ HasCall(p, "update_service") =>
              /\ Succeeded(p, "register_task_definition")
              /\ CallOf(p, "update_service").request.taskDefinition =
                     CallOf(p, "register_task_definition").response
              /\ CallOf(p, "register_task_definition").response \in DOMAIN taskDefs

C2_Witness ==
    /\ Len(calls[1]) = Len(Pipeline)
    /\ calls[1][Len(Pipeline)].ok
    /\ calls[1][Len(Pipeline)].request.taskDefinition = <<"web", 6>>

LastCall(p) == calls[p][Len(calls[p])]

\* what the successful calls of the invocation did is still in place
EffectsInPlace(p) ==
    \A i \in DOMAIN calls[p] :
        LET c == calls[p][i]
        IN  /\ (c.op = "publish" /\ c.ok) => c.response \in registry
            /\ (c.op = "register_task_definition" /\ c.ok) =>
                  /\ c.response \in DOMAIN taskDefs
                  /\ taskDefs[c.response].status = "ACTIVE"
                  /\ taskDefs[c.response].spec =
                        [k \in DOMAIN c.request \ {"family"} |-> c.request[k]]
            /\ (c.op = "deregister_task_definition" /\ c.ok) =>
                  /\ c.request \in DOMAIN taskDefs
                  /\ taskDefs[c.request].status = "INACTIVE"

C3_Failed(p) ==
    ((\E i \in DOMAIN calls[p] : ~calls[p][i].ok) \/ pc[p] = "failed") =>
        /\ pc[p] = "failed"
        /\ outcome[p].result = <<>>
        /\ calls[p] # <<>>
        /\ IF LastCall(p).ok
           THEN outcome[p].error \in
                   { <<"ValueError", "No authorization data found">>,
                     <<"ValueError", "unpack">>,
                     <<"ValueError", "No task definitions found for family">> }
           ELSE outcome[p].error \in
                   { ApiError(LastCall(p).op),
                     <<"ParamValidationError", LastCall(p).op>> }
        /\ EffectsInPlace(p)

C3_Step(p) ==
    /\ (pc[p] # "failed" /\ pc'[p] = "failed") =>
          /\ taskDefs' = taskDefs
          /\ services' = services
          /\ registry' = registry
          /\ Len(calls'[p]) = Len(calls[p]) + 1
    /\ pc[p] = "failed" =>
          \/ /\ pc'[p] = "failed"
             /\ calls'[p] = calls[p]
             /\ outcome'[p] = outcome[p]
          \/ /\ runs'[p] = runs[p] + 1
             /\ calls'[p] = <<>>
             /\ taskDefs' = taskDefs
             /\ services' = services
             /\ registry' = registry

\* C3: when a step of deploy fails the invocation is failed at once: the
\* failing step changes nothing, its error (and no confirmation) reaches
\* the caller, no further call is issued by that invocation, and what the
\* earlier successful calls did (an image published, a revision registered,
\* a revision deregistered) stays as they left it.
C3_FailFast ==
    /\ [](\A p \in SeqProcs : C3_Failed(p))
    /\ [][\A p \in SeqProcs : C3_Step(p)]_vars

\* deregistration failed: the revision registered just before is kept
C3_Witness ==
    /\ pc[1] = "failed"
    /\ Rejected(1, "deregister_task_definition")
    /\ Succeeded(1, "register_task_definition")
    /\ CallOf(1, "register_task_definition").response \in DOMAIN taskDefs
    /\ CallOf(1, "register_task_definition").response
          \notin DOMAIN atStart[1].taskDefs

\* C4: when list_task_definitions returns no ARN for the requested family,
\* deploy fails with the "No task definitions found" error straight after
\* that call (no describe, register, deregister or update_service), and the
\* stored revisions, their statuses and the service bindings are those of
\* the start of the invocation.
C4_EmptyFamilyFails ==
    \A p \in SeqProcs :
        (/\ Succeeded(p, "list_task_definitions")
         /\ CallOf(p, "list_task_definitions").response.taskDefinitionArns = <<>>) =>
            /\ pc[p] = "failed"
            /\ outcome[p].error = <<"ValueError", "No task definitions found for family">>
            /\ outcome[p].result = <<>>
            /\ Len(calls[p]) = 3
            /\ EcsAsAtStart(p)

\* family "web" holds only a deregistered revision, or nothing at all
C4_Witness ==
    /\ pc[1] = "failed"
    /\ FamilyOf(1) = "web"
    /\ Succeeded(1, "list_task_definitions")
    /\ CallOf(1, "list_task_definitions").response.taskDefinitionArns = <<>>
    /\ RevisionsOf(taskDefs, "web") \in {{}, {1}}

\* C5: when get_authorization_token answers with an empty authorizationData
\* list, push raises "No authorization data found" before anything is built
\* or published: the registry holds what it held at the start, and the
\* deploy that called push issues no ECS call and leaves ECS untouched.
C5_NoAuthorizationData ==
    \A p \in SeqProcs :
        (/\ Succeeded(p, "get_authorization_token")
         /\ CallOf(p, "get_authorization_token").response.authorizationData = <<>>) =>
            /\ pc[p] = "failed"
            /\ outcome[p].error = <<"ValueError", "No authorization data found">>
            /\ Len(calls[p]) = 1
            /\ registry = atStart[p].registry
            /\ EcsAsAtStart(p)

C5_Witness ==
    /\ pc[1] = "failed"
    /\ Len(calls[1]) = 1
    /\ calls[1][1].ok
    /\ calls[1][1].response.authorizationData = <<>>
    /\ outcome[1].error = <<"ValueError", "No authorization data found">>

\* C6: when register_task_definition is rejected, deploy fails without
\* calling deregister or update_service: the stored revisions and their
\* statuses are those of the start of the invocation (the resolved revision
\* is still ACTIVE, no revision was added) and the bindings are unchanged.
C6_RegistrationRejected ==
    \A p \in SeqProcs :
        Rejected(p, "register_task_definition") =>
            /\ pc[p] = "failed"
            /\ Len(calls[p]) = 5
            /\ EcsAsAtStart(p)
            /\ taskDefs[local[p].latest_task_definition_arn].status = "ACTIVE"
            /\ NextArn(atStart[p].taskDefs, FamilyOf(p)) \notin DOMAIN taskDefs

\* the platform rejects a well-formed registration
C6_Witness ==
    /\ pc[1] = "failed"
    /\ Rejected(1, "register_task_definition")
    /\ ParamsValid(CallOf(1, "register_task_definition").request)
    /\ outcome[1].error = ApiError("register_task_definition")

\* what register and deregister of this invocation, and nothing else, make
\* of the revisions stored at its start
AfterRegisterAndDeregister(p) ==
    EcsDeregisterTaskDefinition(
        EcsRegisterTaskDefinition(atStart[p].taskDefs,
                                  CallOf(p, "register_task_definition").request),
        local[p].latest_task_definition_arn)

\* C7 as claimed: when update_service fails the new revision is ACTIVE, the
\* resolved revision is INACTIVE, nothing was compensated, and the service
\* is bound to the resolved (now INACTIVE) revision.
C7_AsClaimed ==
    \A p \in SeqProcs :
        Rejected(p, "update_service") =>
            /\ pc[p] = "failed"
            /\ taskDefs = AfterRegisterAndDeregister(p)
            /\ services[local[p].service] = local[p].latest_task_definition_arn

\* C7 as amended: when update_service fails the invocation is failed with
\* the new revision registered and ACTIVE, the resolved revision INACTIVE,
\* no other revision touched (nothing re-registered, re-activated or
\* deregistered in compensation), and every service binding exactly as it
\* was at the start of the invocation.
C7_ServiceUpdateFails ==
    \A p \in SeqProcs :
        Rejected(p, "update_service") =>
            /\ pc[p] = "failed"
            /\ Len(calls[p]) = 7
            /\ taskDefs = AfterRegisterAndDeregister(p)
            /\ taskDefs[local[p].new_task_definition_arn].status = "ACTIVE"
            /\ taskDefs[local[p].latest_task_definition_arn].status = "INACTIVE"
            /\ services = atStart[p].services

\* the service was bound to the resolved revision and still is
C7_Witness ==
    /\ pc[1] = "failed"
    /\ Rejected(1, "update_service")
    /\ services["svc"] = local[1].latest_task_definition_arn
    /\ taskDefs[local[1].latest_task_definition_arn].status = "INACTIVE"
    /\ taskDefs[local[1].new_task_definition_arn].status = "ACTIVE"

\* C8: the revision deploy resolves is the one with the highest revision
\* number among the revisions of exactly the requested family that are
\* registered (ACTIVE, i.e. not deregistered) when the invocation runs; it
\* is the revision described, and the new revision is registered in the
\* requested family.
C8_ResolvesMaximum ==
    \A p \in SeqProcs :
        (/\ Succeeded(p, "list_task_definitions")
         /\ CallOf(p, "list_task_definitions").response.taskDefinitionArns # <<>>) =>
            LET active == ActiveRevisionsOf(atStart[p].taskDefs, FamilyOf(p))
            IN  /\ active # {}
                /\ local[p].latest_task_definition_arn = <<FamilyOf(p), MaxOf(active)>>
                /\ HasCall(p, "describe_task_definition") =>
                      CallOf(p, "describe_task_definition").request =
                          <<FamilyOf(p), MaxOf(active)>>
                /\ HasCall(p, "register_task_definition") =>
                      CallOf(p, "register_task_definition").request.family = FamilyOf(p)
                /\ Succeeded(p, "register_task_definition") =>
                      /\ local[p].new_task_definition_arn[1] = FamilyOf(p)
                      /\ local[p].new_task_definition_arn \in DOMAIN taskDefs

\* revisions {1, 2, 5, 3} of "web": 5 is resolved and 6 is registered
C8_Witness ==
    /\ FamilyOf(1) = "web"
    /\ RevisionsOf(atStart[1].taskDefs, "web") = {1, 2, 3, 5}
    /\ local[1].latest_task_definition_arn = <<"web", 5>>
    /\ Succeeded(1, "register_task_definition")
    /\ local[1].new_task_definition_arn = <<"web", 6>>

\* container specs c and d agree on every field but image
SameButImage(c, d) ==
    /\ DOMAIN c = DOMAIN d
    /\ \A f \in DOMAIN c \ {"image"} : c[f] = d[f]

\* C9: the arguments deploy hands to register_task_definition differ from
\* the task definition it resolved only in container image fields: every
\* field of the resolved definition (other than the ARN, revision number
\* and status the platform assigns) is passed on unchanged, and a field the
\* resolved definition does not have is not passed at all.
C9_OnlyImagesDiffer ==
    \A p \in SeqProcs :
        HasCall(p, "register_task_definition") =>
            LET T == CallOf(p, "describe_task_definition").response
                D == CallOf(p, "register_task_definition").request
            IN  /\ \A k \in DOMAIN T \ PlatformKeys :
                      /\ k \in DOMAIN D
                      /\ k # "containerDefinitions" => D[k] = T[k]
                /\ \A k \in DOMAIN D : k \in DOMAIN T
                /\ Len(D.containerDefinitions) = Len(T.containerDefinitions)
                /\ \A i \in DOMAIN T.containerDefinitions :
                      SameButImage(T.containerDefinitions[i],
                                   D.containerDefinitions[i])

\* image references a task definition may carry or be given
AnyImages == Images \cup {"old:1", "proxy:2"}

\* C10: for every task definition T that deploy resolves and all image
\* references I1, I2, the image loop applied with I1 and then with I2 gives
\* what the image loop applied with I2 alone gives; and a revision that an
\* earlier deploy produced, resolved again, is registered with the images
\* of the later deploy only.
C10_MutationOverwrites ==
    \A p \in SeqProcs :
        Succeeded(p, "describe_task_definition") =>
            LET T == CallOf(p, "describe_task_definition").response
            IN  /\ \A I1, I2 \in AnyImages :
                      WithImage(WithImage(T, I1), I2) = WithImage(T, I2)
                /\ HasCall(p, "register_task_definition") =>
                      \A I1 \in AnyImages :
                          CallOf(p, "register_task_definition").request =
                              RegisterKwargs(
                                  WithImage(WithImage(T, I1), local[p].image))

\* the resolved revision already carries the image of an earlier deploy and
\* is registered again with another one
C10_Witness ==
    /\ runs[1] = 2
    /\ Succeeded(1, "register_task_definition")
    /\ Len(CallOf(1, "describe_task_definition").response.containerDefinitions) = 3
    /\ CallOf(1, "describe_task_definition").response.containerDefinitions[1].image
          = "registry/app:sha256-new"
    /\ local[1].image = "registry/app:sha256-new2"
    /\ ContainersOf(taskDefs, local[1].new_task_definition_arn)[1].image
          = "registry/app:sha256-new2"
    /\ ContainersOf(taskDefs, local[1].new_task_definition_arn)[3].image
          = "registry/app:sha256-new2"
    /\ "image" \notin DOMAIN ContainersOf(taskDefs, local[1].new_task_definition_arn)[2]


---------------------------------------------------------------------------
\* C11: in every step of any sequence of deploy invocations, every stored
\* revision stays stored with the specification it was registered with, its
\* status changes only from ACTIVE to INACTIVE, and a revision that appears
\* has an identifier that was not in use, with a revision number above
\* every number already stored in its family.
C11_Step ==
    /\ \A a \in DOMAIN taskDefs :
          /\ a \in DOMAIN taskDefs'
          /\ taskDefs'[a].spec = taskDefs[a].spec
          /\ taskDefs'[a].status # taskDefs[a].status =>
                /\ taskDefs[a].status = "ACTIVE"
                /\ taskDefs'[a].status = "INACTIVE"
    /\ \A a \in DOMAIN taskDefs' \ DOMAIN taskDefs :
          \A r \in RevisionsOf(taskDefs, a[1]) : r < a[2]
    /\ Cardinality(DOMAIN taskDefs' \ DOMAIN taskDefs) <= 1

---------------------------------------------------------------------------
\* C12: deploy hands its caller the confirmation "Service <service> updated
\* to use task definition <arn>" exactly when update_service succeeded, and
\* <arn> is the identifier this invocation's register_task_definition
\* returned; an invocation that ended otherwise returned nothing and raised
\* an error.
C12_Confirmation ==
    \A p \in SeqProcs :
        /\ outcome[p].result # <<>> <=> Succeeded(p, "update_service")
        /\ outcome[p].result # <<>> =>
              /\ pc[p] = "done"
              /\ outcome[p].error = <<>>
              /\ outcome[p].result =
                    <<"Service", local[p].service,
                      "updated to use task definition",
                      CallOf(p, "register_task_definition").response>>
        /\ pc[p] = "done" => outcome[p].result # <<>>
        /\ pc[p] = "failed" =>
              /\ outcome[p].result = <<>>
              /\ outcome[p].error # <<>>

C12_Witness ==
    /\ pc[1] = "done"
    /\ outcome[1].result =
          <<"Service", "svc", "updated to use task definition", <<"web", 4>>>>
    /\ CallOf(1, "register_task_definition").response = <<"web", 4>>

\* C13: in a deploy on a family for which list_task_definitions returns
\* nothing, the calls are get_authorization_token and publish, both
\* successful, then list_task_definitions; the invocation fails with the
\* "No task definitions found" error while the image publish returned is
\* in the registry.
C13_PushBeforeResolve ==
    \A p \in SeqProcs :
        (/\ Succeeded(p, "list_task_definitions")
         /\ CallOf(p, "list_task_definitions").response.taskDefinitionArns = <<>>) =>
            /\ [i \in DOMAIN calls[p] |-> calls[p][i].op] =
                  <<"get_authorization_token", "publish", "list_task_definitions">>
            /\ calls[p][1].ok /\ calls[p][2].ok
            /\ calls[p][2].response = local[p].image
            /\ local[p].image \in registry
            /\ pc[p] = "failed"
            /\ outcome[p].error[1] = "ValueError"

\* family "web" is empty and the first deploy on it has failed: the image
\* is in a registry that was empty before
C13_Witness ==
    /\ runs[1] = 1
    /\ pc[1] = "failed"
    /\ FamilyOf(1) = "web"
    /\ RevisionsOf(taskDefs, "web") = {}
    /\ Len(calls[1]) = 3
    /\ atStart[1].registry = {}
    /\ registry = {"registry/app:sha256-new"}

\* the error the handler printed, if it printed one
PrintedErrors(p) ==
    {outcome[p].printed[i][2] : i \in
        {j \in DOMAIN outcome[p].printed :
            outcome[p].printed[j][1] = "Error updating ECS service"}}

\* C14 as claimed: whatever step of a deploy failed (push included), the
\* error that reaches the caller was printed first.
C14_AsClaimed ==
    \A p \in SeqProcs :
        pc[p] = "failed" => PrintedErrors(p) = {outcome[p].error}

TryOps ==
    { "list_task_definitions", "describe_task_definition",
      "register_task_definition", "deregister_task_definition",
      "update_service" }

\* C14 as amended: an error raised by list, describe, register, deregister
\* or update_service (or by the no-revision check) is printed once and the
\* same error is then raised to the caller; an error raised inside push
\* reaches the caller without being printed.
C14_LoggedInsideTry ==
    \A p \in SeqProcs :
        /\ pc[p] = "failed" =>
              IF LastCall(p).op \in TryOps
              THEN PrintedErrors(p) = {outcome[p].error}
              ELSE PrintedErrors(p) = {}
        /\ pc[p] # "failed" => PrintedErrors(p) = {}
        /\ Cardinality({j \in DOMAIN outcome[p].printed :
              outcome[p].printed[j][1] = "Error updating ECS service"}) <= 1

\* the deregistration failed and its error was printed
C14_Witness ==
    /\ pc[1] = "failed"
    /\ LastCall(1).op = "deregister_task_definition"
    /\ outcome[1].error = ApiError("deregister_task_definition")
    /\ outcome[1].printed =
          << <<"Latest task definition ARN", local[1].latest_task_definition_arn>>,
             <<"Error updating ECS service", ApiError("deregister_task_definition")>> >>


---------------------------------------------------------------------------
\* The demo web application (app.py)

AppMethods == {"GET", "POST"}

AppPaths == {"/", "/api", "/missing"}

\* home(): render_template("index.html")
home == [status |-> 200, body |-> <<"html", "template", "index.html">>]

apiHelloWorld == [status |-> 200, body |-> <<"json", "message", "Hello, World!">>]

\* api(): jsonify({"message": "Hello, Flask!"})
api == [status |-> 200, body |-> <<"json", "message", "Hello, Flask!">>]

\* the routes registered with @app.route, which accept GET only
Dispatch(method, path) ==
    IF path \notin {"/", "/api"}
    THEN [status |-> 404, body |-> <<"html", "error", "Not Found">>]
    ELSE IF method # "GET"
    THEN [status |-> 405, body |-> <<"html", "error", "Method Not Allowed">>]
    ELSE IF path = "/" THEN home ELSE api

\* the application answers one request
AppRequest ==
    /\ Len(http) < MaxRequests
    /\ \E method \in AppMethods, path \in AppPaths :
          http' = Append(http, [method |-> method, path |-> path,
                                response |-> Dispatch(method, path)])
    /\ UNCHANGED deployVars

InitApp ==
    /\ taskDefs = InitTaskDefs([r \in {3} |-> "ACTIVE"],
                               [containerDefinitions |-> CtrsOne] @@ OptFull)
    /\ services = [svc \in Services |-> <<"web", 3>>]
    /\ registry = {}
    /\ pc = [p \in AllProcs |-> "idle"]
    /\ local = [p \in AllProcs |-> NoLocals]
    /\ outcome = [p \in AllProcs |-> NoOutcome]
    /\ calls = [p \in AllProcs |-> <<>>]
    /\ atStart = [p \in AllProcs |->
                    [taskDefs |-> taskDefs, services |-> services,
                     registry |-> {}, previous |-> NoPrevious]]
    /\ runs = [p \in AllProcs |-> 0]
    /\ http = <<>>

NextApp == AppRequest

SpecApp == InitApp /\ [][NextApp]_vars

\* C15: every GET request to /api is answered with status 200 and the JSON
\* body {"message": "Hello, Flask!"}, whatever requests came before it.
C15_ApiRoute ==
    \A i \in DOMAIN http :
        (http[i].method = "GET" /\ http[i].path = "/api") =>
            /\ http[i].response.status = 200
            /\ http[i].response.body = <<"json", "message", "Hello, Flask!">>

\* GET /api answered after a rejected POST and a request for the page
C15_Witness ==
    /\ Len(http) = 3
    /\ http[1].method = "POST" /\ http[1].response.status = 405
    /\ http[2].method = "GET" /\ http[2].path = "/"
    /\ http[3].method = "GET" /\ http[3].path = "/api"
    /\ http[3].response.status = 200
    /\ http[3].response.body = <<"json", "message", "Hello, Flask!">>


---------------------------------------------------------------------------
\* the invocation has deregistered the resolved revision and has not yet
\* called update_service
InWindow(p) == pc[p] = "update_service"

\* C16 as claimed: between the deregistration and the service update the
\* service is bound to an INACTIVE revision.
C16_AsClaimed ==
    \A p \in SeqProcs :
        InWindow(p) => taskDefs[services[local[p].service]].status = "INACTIVE"

C16_State(p) ==
    /\ InWindow(p) =>
          /\ ~HasCall(p, "update_service")
          /\ taskDefs[local[p].latest_task_definition_arn].status = "INACTIVE"
          /\ taskDefs[local[p].latest_task_definition_arn].spec =
                atStart[p].taskDefs[local[p].latest_task_definition_arn].spec
          /\ services = atStart[p].services
          /\ services[local[p].service] = local[p].latest_task_definition_arn =>
                taskDefs[services[local[p].service]].status = "INACTIVE"
          /\ EcsListTaskDefinitions(taskDefs, FamilyOf(p)) =
                <<local[p].new_task_definition_arn>>
    /\ (/\ Succeeded(p, "list_task_definitions")
        /\ CallOf(p, "list_task_definitions").response.taskDefinitionArns # <<>>) =>
          atStart[p].taskDefs[local[p].latest_task_definition_arn].status = "ACTIVE"

C16_Step(p) ==
    (pc[p] = "deregister_task_definition" /\ pc'[p] = "update_service") =>
        /\ services' = services
        /\ registry' = registry
        /\ DOMAIN taskDefs' = DOMAIN taskDefs
        /\ \A a \in DOMAIN taskDefs :
              IF a = local[p].latest_task_definition_arn
              THEN /\ taskDefs'[a].status = "INACTIVE"
                   /\ taskDefs'[a].spec = taskDefs[a].spec
              ELSE taskDefs'[a] = taskDefs[a]

\* C16 as amended: deregistering the resolved revision is issued before
\* update_service and changes only that revision's status, leaving its
\* stored specification and every service binding as they were; so between
\* deregistration and update the binding is still the one from before the
\* invocation, and the service is bound to an INACTIVE revision when it was
\* bound to the resolved revision. Only resolution is affected: the
\* deregistered revision is no longer listed, and a later invocation never
\* resolves a revision that was INACTIVE when it began.
C16_DeregisterFrame ==
    /\ [](\A p \in SeqProcs : C16_State(p))
    /\ [][\A p \in SeqProcs : C16_Step(p)]_vars

\* the service was bound to the resolved revision, which is now INACTIVE
C16_Witness ==
    /\ InWindow(1)
    /\ services["svc"] = <<"web", 3>>
    /\ local[1].latest_task_definition_arn = <<"web", 3>>
    /\ taskDefs[<<"web", 3>>].status = "INACTIVE"
    /\ taskDefs[<<"web", 4>>].status = "ACTIVE"


---------------------------------------------------------------------------
\* Specification: two callers, each invoking deploy once, their calls
\* interleaved in any order

ConcServices == {"svc", "svc2"}

InitConc ==
    /\ taskDefs = InitTaskDefs([r \in {3} |-> "ACTIVE"],
                               [containerDefinitions |-> CtrsOne] @@ OptFull)
    /\ services = [svc \in ConcServices |->
                      IF svc = "svc" THEN <<"web", 3>> ELSE <<"api", 1>>]
    /\ registry = {}
    /\ pc = [p \in AllProcs |-> "idle"]
    /\ local = [p \in AllProcs |-> NoLocals]
    /\ outcome = [p \in AllProcs |-> NoOutcome]
    /\ calls = [p \in AllProcs |-> <<>>]
    /\ atStart = [p \in AllProcs |->
                    [taskDefs |-> taskDefs, services |-> services,
                     registry |-> {}, previous |-> NoPrevious]]
    /\ runs = [p \in AllProcs |-> 0]
    /\ http = <<>>

\* deploy(...) is invoked by a caller that has not invoked it before
DeployStartOnce(p) ==
    /\ pc[p] = "idle"
    /\ runs[p] = 0
    /\ \E family \in Families, service \in ConcServices :
          local' = [local EXCEPT ![p] =
                      [NoLocals EXCEPT !.cluster = Cluster,
                                       !.service = service,
                                       !.task_definition_family = family,
                                       !.registry = Registry]]
    /\ pc' = [pc EXCEPT ![p] = "get_authorization_token"]
    /\ outcome' = [outcome EXCEPT ![p] = NoOutcome]
    /\ calls' = [calls EXCEPT ![p] = <<>>]
    /\ atStart' = [atStart EXCEPT ![p] =
                     [taskDefs |-> taskDefs, services |-> services,
                      registry |-> registry, previous |-> Returned(p)]]
    /\ runs' = [runs EXCEPT ![p] = 1]
    /\ UNCHANGED <<taskDefs, services, registry, http>>

StepConc(p) ==
    \/ DeployStartOnce(p)
    \/ PushGetAuthorizationToken(p)
    \/ PushPublish(p)
    \/ DeployListTaskDefinitions(p)
    \/ DeployDescribeTaskDefinition(p)
    \/ DeployRegisterTaskDefinition(p)
    \/ DeployDeregisterTaskDefinition(p)
    \/ DeployUpdateService(p)

NextConc == \E p \in AllProcs : StepConc(p)

SpecConc == InitConc /\ [][NextConc]_vars


---------------------------------------------------------------------------
\* the revisions of one family
RestrictTo(tds, family) ==
    [a \in {b \in DOMAIN tds : b[1] = family} |-> tds[a]]

\* the stored revisions an invocation would have left had nothing else run
\* since it began: its own successful register and deregister applied to
\* what was stored when it began
AloneTaskDefs(p) ==
    LET t0 == atStart[p].taskDefs
        t1 == IF Succeeded(p, "register_task_definition")
              THEN EcsRegisterTaskDefinition(
                       t0, CallOf(p, "register_task_definition").request)
              ELSE t0
    IN  IF Succeeded(p, "deregister_task_definition")
        THEN EcsDeregisterTaskDefinition(
                 t1, CallOf(p, "deregister_task_definition").request)
        ELSE t1

\* the binding of its service it would have left
AloneBinding(p) ==
    IF Succeeded(p, "update_service")
    THEN CallOf(p, "update_service").request.taskDefinition
    ELSE atStart[p].services[local[p].service]

\* the answers it would have got
AloneAnswers(p) ==
    /\ Succeeded(p, "list_task_definitions") =>
          CallOf(p, "list_task_definitions").response.taskDefinitionArns =
              EcsListTaskDefinitions(atStart[p].taskDefs, FamilyOf(p))
    /\ Succeeded(p, "describe_task_definition") =>
          CallOf(p, "describe_task_definition").response =
              EcsDescribeTaskDefinition(atStart[p].taskDefs,
                                        local[p].latest_task_definition_arn)
    /\ Succeeded(p, "register_task_definition") =>
          /\ CallOf(p, "register_task_definition").request.family = FamilyOf(p)
          /\ CallOf(p, "register_task_definition").response =
                NextArn(atStart[p].taskDefs, FamilyOf(p))

Started(p) == pc[p] # "idle"

\* C17: when two invocations target different families and different
\* services, then however their steps interleave, each one gets the answers
\* it would get alone, and its family's revisions and its service's binding
\* are, at every point and at the end, what its own calls alone make of the
\* state it started from.
C17_NoInterference ==
    \A p, q \in AllProcs :
        (/\ p # q
         /\ Started(p)
         /\ FamilyOf(p) # FamilyOf(q)
         /\ local[p].service # local[q].service) =>
            /\ AloneAnswers(p)
            /\ RestrictTo(taskDefs, FamilyOf(p)) =
                  RestrictTo(AloneTaskDefs(p), FamilyOf(p))
            /\ services[local[p].service] = AloneBinding(p)

\* both began before either had published, and both have succeeded
C17_Witness ==
    /\ pc[1] = "done" /\ pc[2] = "done"
    /\ FamilyOf(1) = "web" /\ FamilyOf(2) = "api"
    /\ local[1].service = "svc" /\ local[2].service = "svc2"
    /\ atStart[1].registry = {} /\ atStart[2].registry = {}
    /\ services["svc"] = <<"web", 4>>
    /\ services["svc2"] = <<"api", 2>>
    /\ taskDefs[<<"web", 3>>].status = "INACTIVE"
    /\ taskDefs[<<"api", 1>>].status = "INACTIVE"


---------------------------------------------------------------------------
\* both invocations resolved the same revision
SameResolution(p, q) ==
    /\ p # q
    /\ Succeeded(p, "describe_task_definition")
    /\ Succeeded(q, "describe_task_definition")
    /\ local[p].latest_task_definition_arn = local[q].latest_task_definition_arn

\* C18: nothing keeps two invocations on one family from resolving the same
\* revision; when they do, each registers, from that revision with its own
\* image, a new revision with an identifier of its own, and each then
\* issues its deregistration for that one resolved revision.
C18_ResolutionRace ==
    \A p, q \in AllProcs :
        SameResolution(p, q) =>
            /\ FamilyOf(p) = FamilyOf(q)
            /\ HasCall(p, "register_task_definition") =>
                  CallOf(p, "register_task_definition").request.containerDefinitions =
                      WithImage(CallOf(q, "describe_task_definition").response,
                                local[p].image).containerDefinitions
            /\ (/\ Succeeded(p, "register_task_definition")
                /\ Succeeded(q, "register_task_definition")) =>
                  /\ local[p].new_task_definition_arn # local[q].new_task_definition_arn
                  /\ {local[p].new_task_definition_arn,
                      local[q].new_task_definition_arn} \subseteq DOMAIN taskDefs
            /\ HasCall(p, "deregister_task_definition") =>
                  CallOf(p, "deregister_task_definition").request =
                      local[q].latest_task_definition_arn

\* the race: both resolved revision 3 of "web", registered 4 and 5 from it,
\* and both issued the deregistration of 3
C18_Witness ==
    /\ SameResolution(1, 2)
    /\ local[1].latest_task_definition_arn = <<"web", 3>>
    /\ {local[1].new_task_definition_arn, local[2].new_task_definition_arn} =
          {<<"web", 4>>, <<"web", 5>>}
    /\ HasCall(1, "deregister_task_definition")
    /\ HasCall(2, "deregister_task_definition")
    /\ CallOf(1, "deregister_task_definition").request = <<"web", 3>>
    /\ CallOf(2, "deregister_task_definition").request = <<"web", 3>>
    /\ local[1].image # local[2].image
    /\ ContainersOf(taskDefs, <<"web", 4>>)[1].image
          # ContainersOf(taskDefs, <<"web", 5>>)[1].image

\* both invocations targeted one family and one service and both succeeded
BothSucceeded(p, q) ==
    /\ p # q
    /\ pc[p] = "done" /\ pc[q] = "done"
    /\ FamilyOf(p) = FamilyOf(q)
    /\ local[p].service = local[q].service

\* C19 as claimed: once two invocations on one family and one service have
\* both succeeded, the service is bound to an ACTIVE revision.
C19_AsClaimed ==
    \A p, q \in AllProcs :
        BothSucceeded(p, q) =>
            taskDefs[services[local[p].service]].status = "ACTIVE"

\* C19 as amended: once two invocations on one family and one service have
\* both succeeded, the service is bound to one of the two revisions they
\* registered; that revision is ACTIVE unless the other invocation resolved
\* and deregistered it, and the higher-numbered of the two revisions is
\* ACTIVE in either case.
C19_BothSucceeded ==
    \A p, q \in AllProcs :
        BothSucceeded(p, q) =>
            LET bound == services[local[p].service]
                newP  == local[p].new_task_definition_arn
                newQ  == local[q].new_task_definition_arn
            IN  /\ bound \in {newP, newQ}
                /\ newP # newQ
                /\ taskDefs[bound].status = "INACTIVE" =>
                      \/ bound = newP /\ local[q].latest_task_definition_arn = newP
                      \/ bound = newQ /\ local[p].latest_task_definition_arn = newQ
                /\ (bound = newP /\ local[q].latest_task_definition_arn # newP) =>
                      taskDefs[bound].status = "ACTIVE"
                /\ newP[2] > newQ[2] => taskDefs[newP].status = "ACTIVE"

\* both succeeded and the service is bound to the revision that the other
\* invocation resolved and deregistered
C19_Witness ==
    /\ BothSucceeded(1, 2)
    /\ services[local[1].service] = local[1].new_task_definition_arn
    /\ local[2].latest_task_definition_arn = local[1].new_task_definition_arn
    /\ taskDefs[services[local[1].service]].status = "INACTIVE"
    /\ taskDefs[local[2].new_task_definition_arn].status = "ACTIVE"


---------------------------------------------------------------------------
\* the caller's previous invocation succeeded on the family of this one
FollowsSuccessOnFamily(p) ==
    /\ atStart[p].previous.succeeded
    /\ atStart[p].previous.task_definition_family = FamilyOf(p)

\* C20: in a sequence of successful invocations made one after another on
\* one family, an invocation resolves the revision the previous one
\* registered; every successful invocation leaves the family with as many
\* ACTIVE revisions as it found, and leaves the service bound to the
\* highest-numbered ACTIVE revision of the family.
C20_SuccessiveRollovers ==
    \A p \in SeqProcs :
        /\ (/\ FollowsSuccessOnFamily(p)
            /\ Succeeded(p, "list_task_definitions")) =>
              /\ CallOf(p, "list_task_definitions").response.taskDefinitionArns =
                    <<atStart[p].previous.new_task_definition_arn>>
              /\ local[p].latest_task_definition_arn =
                    atStart[p].previous.new_task_definition_arn
        /\ pc[p] = "done" =>
              /\ Cardinality(ActiveRevisionsOf(taskDefs, FamilyOf(p))) =
                    Cardinality(ActiveRevisionsOf(atStart[p].taskDefs, FamilyOf(p)))
              /\ services[local[p].service] =
                    <<FamilyOf(p), MaxOf(ActiveRevisionsOf(taskDefs, FamilyOf(p)))>>

\* the second of two successful invocations on "web": it resolved revision
\* 6, which the first had registered, and registered 7; four revisions are
\* ACTIVE as before
C20_Witness ==
    /\ pc[1] = "done"
    /\ runs[1] = 2
    /\ FollowsSuccessOnFamily(1)
    /\ FamilyOf(1) = "web"
    /\ atStart[1].previous.new_task_definition_arn = <<"web", 6>>
    /\ local[1].latest_task_definition_arn = <<"web", 6>>
    /\ local[1].new_task_definition_arn = <<"web", 7>>
    /\ ActiveRevisionsOf(taskDefs, "web") = {1, 2, 3, 7}
    /\ services["svc"] = <<"web", 7>>

====
